---- MODULE Spec2Model ----
(***************************************************************************)
(* The OpenAI-compatible request surface of the GridLLM gateway            *)
(* (server/src/routes/openai.ts): the POST /v1/completions handler, its    *)
(* helpers, and the three callbacks it hands to the job scheduler; the GET  *)
(* /v1/models handler; and the worker adapter                              *)
(* (client/src/services/OllamaService.ts): the payload of a generate       *)
(* request, the two streaming generators, and the connection state.       *)
(*                                                                         *)
(* Each part has its own specification over its own variables: Spec        *)
(* (completions), SpecModels (GET /v1/models), SpecOptions (the parameter  *)
(* translation), SpecPayload (the adapter's payload), SpecStream (the      *)
(* adapter's streaming generators) and SpecAdapter (isConnected and        *)
(* lastHealthCheck under concurrent calls).  The variables of the other    *)
(* parts keep their initial values.                                        *)
(*                                                                         *)
(* Conventions of the model.                                               *)
(*  - A JavaScript string is a sequence of one-character strings, so that  *)
(*    concatenation is \o and the empty string is << >>.                   *)
(*  - An optional property (absent / undefined) is << >>, a present one    *)
(*    is the one-element sequence << v >>.                                 *)
(*  - JavaScript null is the string "null"; an absent done_reason is the   *)
(*    string "undefined".                                                  *)
(*  - The Express response object is the record res: what the handler      *)
(*    called on it and what reached the wire.  Node's rules are kept:      *)
(*    the status line goes out with the first write, json() on a response  *)
(*    whose headers were sent throws ERR_HTTP_HEADERS_SENT, and a write or *)
(*    an end on an ended response delivers nothing.                        *)
(***************************************************************************)
EXTENDS Integers, Sequences, FiniteSets, TLC

(* ------------------------------ bounds -------------------------------- *)
\* the scheduler delivers at most this many chunks to one streaming job
MaxChunks == 2

(* ------------------------- program constants -------------------------- *)
DefaultMaxTokens == 16
DefaultTemperature == 1
MinMaxTokens == 1
MinTemperature == 0
MaxTemperature == 2
HttpBadRequest == 400
HttpNotFound == 404
HttpServerError == 500

(* ------------------------------ inputs -------------------------------- *)
Models == {"m1", "m2"}
NL == "\n"

\* request prompts: a string, the empty string, sequences of strings
PromptInputs ==
    { [kind |-> "string", str |-> <<"H">>],
      [kind |-> "string", str |-> << >>],
      [kind |-> "strings", items |-> << >>],
      [kind |-> "strings", items |-> << <<"H">>, <<"i">> >>] }

StreamOptionsInputs ==
    { [include_usage |-> << >>], [include_usage |-> <<TRUE>>] }

Maybe(S) == { << >> } \cup { <<v>> : v \in S }

Bodies ==
    [ model : Maybe({"m1"}),
      prompt : Maybe(PromptInputs),
      echo : Maybe({TRUE}),
      max_tokens : Maybe({0}),
      stream : Maybe({TRUE}),
      stream_options : Maybe(StreamOptionsInputs),
      temperature : Maybe({3}) ]

\* text deltas a worker chunk may carry
Deltas == { << >>, <<"e">>, <<"l">> }

\* chunks handed to onChunk: with a response text, or without the property
Chunks == { [response |-> d] : d \in Deltas } \cup { [done |-> FALSE] }

\* results handed to onComplete or returned by submitAndWait
Results ==
    [ response : Maybe({<<"e">>}),
      done_reason : {"undefined", "stop", "length", "load"},
      eval_count : Maybe({0, 2}),
      prompt_eval_count : Maybe({1}) ]

ErrorMessages == {"worker lost"}

(* ------------------------------- state -------------------------------- *)
VARIABLES
    pc,              \* where the handler is: idle, awaitStream, awaitResult, done
    availableModels, \* what workerRegistry.getAllAvailableModels() returns
    body,            \* req.body of the request being handled (<< >> before one)
    validatedData,   \* the value of schema.validate, defaults applied
    promptText,      \* convertPromptToString(validatedData.prompt)
    totalText,       \* the streaming branch's accumulator
    res,             \* the Express response
    thrown,          \* the error that left the handler (<< >> if none)
    calls,           \* calls made on the registry and the scheduler, in order
    emitted,         \* the chunks the scheduler handed to onChunk, in order
    cb,              \* the terminal callback the scheduler invoked: none, complete, error
    outcome,         \* the result (or error message) the scheduler reported
    \* GET /v1/models
    pcM,             \* start, listed, grown, relisted
    fleet,           \* the workers of the registry, in its enumeration order
    listing,         \* data of the last /v1/models answer (<< >> before one)
    prevListing,     \* data of the answer before that
    \* the parameter translation of /v1/completions
    candidate,       \* a validated request
    forwarded,       \* the options and the prompt built from it (<< >> before)
    \* the worker adapter: payload
    request,         \* the InferenceRequest given to generate(Stream)Response
    payload,         \* the payload posted to /api/generate (<< >> before)
    \* the worker adapter: streaming generators
    gen,             \* which generator runs: generate or chat
    wireAll,         \* the bytes the worker sends before it closes
    wire,            \* the bytes not yet delivered
    buffer,          \* the generator's buffer
    yielded,         \* the chunks the generator yielded, in order
    parsed,          \* the records those chunks were built from
    genState,        \* idle, streaming, returned, threw
    \* the worker adapter: connection state
    isConnected,     \* this.isConnected
    lastHealthCheck, \* this.lastHealthCheck, a clock reading
    clock,           \* the clock
    nextId,          \* the number of the next call on the service
    pending,         \* the calls awaiting the worker: their HTTP answer or body
    http,            \* the HTTP requests issued to the worker
    last             \* the last step of a call, with the status before it

completionsVars == <<pc, availableModels, body, validatedData, promptText,
                     totalText, res, thrown, calls, emitted, cb, outcome>>
modelsVars == <<pcM, fleet, listing, prevListing>>
optionVars == <<candidate, forwarded>>
payloadVars == <<request, payload>>
streamVars == <<gen, wireAll, wire, buffer, yielded, parsed, genState>>
adapterVars == <<isConnected, lastHealthCheck, clock, nextId, pending, http, last>>

vars == <<completionsVars, modelsVars, optionVars, payloadVars, streamVars, adapterVars>>

(* ------------------------- the response object ------------------------ *)
NewResponse ==
    [ statusCode |-> 200,      \* res.statusCode, 200 until res.status is called
      headersSent |-> FALSE,
      contentType |-> "",      \* the Content-Type header ("" while unset)
      wireStatus |-> << >>,    \* the status line the client received
      out |-> << >>,           \* what was written to the wire, in order
      ended |-> 0,             \* how many times the response was ended
      afterEnd |-> 0 ]         \* operations attempted on the ended response

\* res.status(code)
status(r, code) == [r EXCEPT !.statusCode = code]

\* res.write(data): the first write flushes the status line
write(r, data) ==
    IF r.ended > 0
    THEN [r EXCEPT !.afterEnd = @ + 1]
    ELSE [r EXCEPT !.headersSent = TRUE,
                   !.wireStatus = IF r.headersSent THEN @ ELSE <<r.statusCode>>,
                   !.out = Append(@, data)]

\* res.end()
end(r) ==
    IF r.ended > 0
    THEN [r EXCEPT !.afterEnd = @ + 1]
    ELSE [r EXCEPT !.headersSent = TRUE,
                   !.wireStatus = IF r.headersSent THEN @ ELSE <<r.statusCode>>,
                   !.ended = @ + 1]

\* res.json(data) throws once the headers were sent
jsonThrows(r) == r.headersSent

json(r, data) ==
    IF jsonThrows(r)
    THEN [r EXCEPT !.afterEnd = IF r.ended > 0 THEN @ + 1 ELSE @]
    ELSE [r EXCEPT !.headersSent = TRUE,
                   !.contentType = IF @ = "" THEN "application/json" ELSE @,
                   !.wireStatus = <<r.statusCode>>,
                   !.out = Append(@, data),
                   !.ended = @ + 1]

\* res.setHeader("Content-Type", type)
setHeader(r, type) == [r EXCEPT !.contentType = type]

\* streamOpenAIResponse(res, data): one server-sent-events frame
streamOpenAIResponse(r, data) == write(r, data)

\* the parts that are not running
IdleModels ==
    /\ pcM = "start" /\ fleet = << >> /\ listing = << >> /\ prevListing = << >>

IdleOptions == candidate = << >> /\ forwarded = << >>

IdlePayload == request = << >> /\ payload = << >>

IdleStream ==
    /\ gen = "generateStreamResponse" /\ wireAll = << >> /\ wire = << >> /\ buffer = << >>
    /\ yielded = << >> /\ parsed = << >> /\ genState = "idle"

\* the service after its constructor (lines 14-27), before any call
NoStep == [event |-> "none"]

IdleAdapter ==
    /\ isConnected = FALSE /\ lastHealthCheck = 0 /\ clock = 0 /\ nextId = 1
    /\ pending = {} /\ http = {} /\ last = NoStep

Init ==
    /\ IdleModels /\ IdleOptions /\ IdlePayload /\ IdleStream /\ IdleAdapter
    /\ pc = "idle"
    /\ availableModels \in SUBSET Models
    /\ body = << >>
    /\ validatedData = << >>
    /\ promptText = << >>
    /\ totalText = << >>
    /\ res = NewResponse
    /\ thrown = << >>
    /\ calls = << >>
    /\ emitted = << >>
    /\ cb = "none"
    /\ outcome = << >>

(* ------------------------------ helpers ------------------------------- *)
\* x || 0 for an optional count
OrZero(m) == IF m = << >> THEN 0 ELSE m[1]

\* x || "" for an optional string
OrEmpty(m) == IF m = << >> THEN << >> ELSE m[1]

\* Joi.string(): a string, and not the empty one
IsJoiString(s) == s # << >>

\* the alternatives of the prompt key (lines 19-26)
PromptMatches(p) ==
    IF p.kind = "string"
    THEN IsJoiString(p.str)
    ELSE IF p.kind = "strings"
    THEN \A i \in 1..Len(p.items) : IsJoiString(p.items[i])
    ELSE TRUE

\* firstFailure with the min(1) of max_tokens dropped
firstFailureNoMin(b) ==
    IF b.model = << >> THEN <<"model">>
    ELSE IF b.prompt = << >> \/ ~PromptMatches(b.prompt[1]) THEN <<"prompt">>
    ELSE IF b.temperature # << >>
            /\ (b.temperature[1] < MinTemperature
                \/ b.temperature[1] > MaxTemperature)
         THEN <<"temperature">>
    ELSE << >>

\* the path of the first key of req.body that fails the schema, in the order
\* of the schema's keys (lines 17-50); << >> when the body passes
firstFailure(b) ==
    IF b.model = << >> THEN <<"model">>
    ELSE IF b.prompt = << >> \/ ~PromptMatches(b.prompt[1]) THEN <<"prompt">>
    ELSE IF b.max_tokens # << >> /\ b.max_tokens[1] < MinMaxTokens
         THEN <<"max_tokens">>
    ELSE IF b.temperature # << >>
            /\ (b.temperature[1] < MinTemperature
                \/ b.temperature[1] > MaxTemperature)
         THEN <<"temperature">>
    ELSE << >>

\* completionsRequestSchema.validate(req.body): the error and the value with
\* the defaults applied
validate(b) ==
    LET failed == firstFailure(b)
    IN  IF failed # << >>
        THEN [error |-> failed, value |-> << >>]
        ELSE [error |-> << >>,
              value |->
                [ model |-> b.model[1],
                  prompt |-> b.prompt[1],
                  echo |-> IF b.echo = << >> THEN FALSE ELSE b.echo[1],
                  logprobs |-> "null",
                  max_tokens |-> IF b.max_tokens = << >> THEN DefaultMaxTokens
                                 ELSE b.max_tokens[1],
                  stream |-> IF b.stream = << >> THEN FALSE ELSE b.stream[1],
                  stream_options |->
                      IF b.stream_options = << >> THEN << >>
                      ELSE <<[include_usage |->
                                IF b.stream_options[1].include_usage = << >>
                                THEN FALSE
                                ELSE b.stream_options[1].include_usage[1]]>>,
                  temperature |-> IF b.temperature = << >> THEN DefaultTemperature
                                  ELSE b.temperature[1] ]]

\* the body of the 400 answer (lines 140-147)
validationErrorBody(failed) ==
    [error |-> [message |-> "Invalid request",
                type |-> "invalid_request_error",
                param |-> failed[1],
                code |-> "invalid_parameter"]]

\* createError(message, statusCode)
createError(message, statusCode) == [message |-> message, statusCode |-> statusCode]

\* validateModelExists with the test inverted
validateModelExistsInverted(model, available) ==
    IF model \in available
    THEN <<createError("Model is not available on any worker in the network",
                       HttpNotFound)>>
    ELSE << >>

\* validateModelExists(model): the error it throws, << >> when it returns
validateModelExists(model, available) ==
    IF model \notin available
    THEN <<createError("Model is not available on any worker in the network",
                       HttpNotFound)>>
    ELSE << >>

\* prompt.join("\n")
RECURSIVE join(_)
join(items) ==
    IF Len(items) = 0 THEN << >>
    ELSE IF Len(items) = 1 THEN items[1]
    ELSE items[1] \o <<NL>> \o join(Tail(items))

\* String(n) of a non-negative integer, in decimal
Digits == <<"0", "1", "2", "3", "4", "5", "6", "7", "8", "9">>

RECURSIVE numberToString(_)
numberToString(n) ==
    IF n < Len(Digits) THEN <<Digits[n + 1]>>
    ELSE numberToString(n \div Len(Digits)) \o <<Digits[(n % Len(Digits)) + 1]>>

\* the elements of a JSON array text, separated by commas
RECURSIVE commaSeparated(_)
commaSeparated(texts) ==
    IF Len(texts) = 0 THEN << >>
    ELSE IF Len(texts) = 1 THEN texts[1]
    ELSE texts[1] \o <<",">> \o commaSeparated(Tail(texts))

\* JSON.stringify of an array of numbers
stringifyNumbers(tokens) ==
    <<"[">> \o commaSeparated([i \in 1..Len(tokens) |-> numberToString(tokens[i])])
            \o <<"]">>

\* JSON.stringify(prompt) of an array of numbers or of arrays of numbers
stringify(prompt) ==
    IF prompt.kind = "tokens" THEN stringifyNumbers(prompt.items)
    ELSE <<"[">>
         \o commaSeparated([i \in 1..Len(prompt.items) |->
                               stringifyNumbers(prompt.items[i])])
         \o <<"]">>

\* items.join("")
RECURSIVE concat(_)
concat(items) ==
    IF Len(items) = 0 THEN << >> ELSE items[1] \o concat(Tail(items))

\* convertPromptToString joining without the separator
convertPromptToStringNoSeparator(prompt) ==
    IF prompt.kind = "string" THEN prompt.str
    ELSE IF Len(prompt.items) = 0 THEN << >>
    ELSE IF prompt.kind = "strings" THEN concat(prompt.items)
    ELSE stringify(prompt)

\* convertPromptToString(prompt)
convertPromptToString(prompt) ==
    IF prompt.kind = "string" THEN prompt.str
    ELSE IF Len(prompt.items) = 0 THEN << >>
    ELSE IF prompt.kind = "strings" THEN join(prompt.items)
    ELSE stringify(prompt)

\* the finish_reason of convertToOpenAICompletionsResponse (lines 96-104)
finishReason(response) ==
    IF response.done_reason = "stop" THEN "stop"
    ELSE IF response.done_reason = "length" THEN "length"
    ELSE IF response.eval_count = <<0>> THEN "length"
    ELSE "stop"

\* usage of a response or of a final streaming frame
usageOf(response) ==
    [prompt_tokens |-> OrZero(response.prompt_eval_count),
     completion_tokens |-> OrZero(response.eval_count),
     total_tokens |-> OrZero(response.prompt_eval_count) + OrZero(response.eval_count)]

\* convertToOpenAICompletionsResponse(response, model, requestId, prompt, echo, logprobs)
convertToOpenAICompletionsResponse(response, model, prompt, echo) ==
    LET text == OrEmpty(response.response)
    IN  [object |-> "text_completion",
         model |-> model,
         choices |-> <<[text |-> IF echo THEN prompt \o text ELSE text,
                        index |-> 0,
                        logprobs |-> "null",
                        finish_reason |-> finishReason(response)]>>,
         usage |-> usageOf(response)]

\* the body of the 500 answer and of the streaming error frame
serverErrorBody(message) ==
    [error |-> [message |-> message,
                type |-> "server_error",
                code |-> "internal_error"]]

\* the inferenceRequest handed to the scheduler (lines 183-205)
inferenceRequestOf(vd, prompt) ==
    [model |-> vd.model, prompt |-> prompt, stream |-> vd.stream,
     priority |-> "medium"]

(* ------------------- POST /v1/completions, up to the await ------------- *)
PostCompletions(b) ==
    /\ pc = "idle"
    /\ body' = <<b>>
    /\ LET v == validate(b)
       IN  IF v.error # << >>
           THEN \* lines 139-149
                /\ res' = json(status(res, HttpBadRequest), validationErrorBody(v.error))
                /\ pc' = "done"
                /\ UNCHANGED <<validatedData, promptText, thrown, calls>>
           ELSE LET missing == validateModelExists(v.value.model, availableModels)
                    prompt == convertPromptToString(v.value.prompt)
                    lookup == Append(calls, [fn |-> "getAllAvailableModels"])
                IN  /\ validatedData' = <<v.value>>
                    /\ IF missing # << >>
                       THEN \* line 151 throws, outside the try block
                            /\ thrown' = missing
                            /\ calls' = lookup
                            /\ pc' = "done"
                            /\ UNCHANGED <<promptText, res>>
                       ELSE /\ promptText' = prompt
                            /\ thrown' = thrown
                            /\ IF v.value.stream
                               THEN /\ res' = setHeader(res, "text/event-stream")
                                    /\ calls' = Append(lookup,
                                          [fn |-> "submitStreamingJob",
                                           request |-> inferenceRequestOf(v.value, prompt)])
                                    /\ pc' = "awaitStream"
                               ELSE /\ res' = res
                                    /\ calls' = Append(lookup,
                                          [fn |-> "submitAndWait",
                                           request |-> inferenceRequestOf(v.value, prompt)])
                                    /\ pc' = "awaitResult"
    /\ UNCHANGED <<availableModels, totalText, emitted, cb, outcome>>
    /\ UNCHANGED <<modelsVars, optionVars, payloadVars, streamVars, adapterVars>>

(* ------------------- the callbacks of the streaming branch ------------- *)
\* onChunk that writes no frame for an empty delta
onChunkSkipsEmpty(r, vd, prompt, total, chunk) ==
    LET deltaText == IF "response" \in DOMAIN chunk THEN chunk.response ELSE << >>
        newTotal == total \o deltaText
        openaiChunk ==
            [object |-> "text_completion",
             model |-> vd.model,
             choices |-> <<[text |-> IF vd.echo /\ newTotal = deltaText
                                     THEN prompt \o deltaText
                                     ELSE deltaText,
                            index |-> 0,
                            logprobs |-> "null",
                            finish_reason |-> "null"]>>]
    IN  [res |-> IF deltaText = << >> THEN r ELSE streamOpenAIResponse(r, openaiChunk),
         totalText |-> newTotal]

\* onChunk (lines 228-251): the response and the accumulator after it
onChunk(r, vd, prompt, total, chunk) ==
    LET deltaText == IF "response" \in DOMAIN chunk THEN chunk.response ELSE << >>
        newTotal == total \o deltaText
        openaiChunk ==
            [object |-> "text_completion",
             model |-> vd.model,
             choices |-> <<[text |-> IF vd.echo /\ newTotal = deltaText
                                     THEN prompt \o deltaText
                                     ELSE deltaText,
                            index |-> 0,
                            logprobs |-> "null",
                            finish_reason |-> "null"]>>]
    IN  [res |-> streamOpenAIResponse(r, openaiChunk), totalText |-> newTotal]

\* validatedData.stream_options?.include_usage
includeUsage(vd) ==
    IF vd.stream_options = << >> THEN FALSE ELSE vd.stream_options[1].include_usage

\* finalChunk that never strips usage
finalChunkKeepsUsage(vd, result) ==
    [object |-> "text_completion",
     model |-> vd.model,
     choices |-> <<[text |-> << >>,
                    index |-> 0,
                    logprobs |-> "null",
                    finish_reason |-> "stop"]>>,
     usage |-> usageOf(result)]

\* the final frame of onComplete (lines 255-283)
finalChunk(vd, result) ==
    LET withUsage ==
            [object |-> "text_completion",
             model |-> vd.model,
             choices |-> <<[text |-> << >>,
                            index |-> 0,
                            logprobs |-> "null",
                            finish_reason |-> "stop"]>>,
             usage |-> usageOf(result)]
        chunkWithoutUsage ==
            [object |-> withUsage.object,
             model |-> withUsage.model,
             choices |-> withUsage.choices]
    IN  IF includeUsage(vd) THEN withUsage ELSE chunkWithoutUsage

\* the sentinel frame
DoneFrame == [data |-> "[DONE]"]

\* onComplete (lines 253-288)
onComplete(r, vd, result) ==
    end(streamOpenAIResponse(streamOpenAIResponse(r, finalChunk(vd, result)),
                             DoneFrame))

\* onError (lines 290-308)
onError(r, message) ==
    end(streamOpenAIResponse(r, serverErrorBody(message)))

\* the catch block (lines 324-336)
catchBlock(r, message) ==
    json(status(r, HttpServerError), serverErrorBody(message))

\* the error res.json throws when the headers were already sent
HeadersSentError == [message |-> "ERR_HTTP_HEADERS_SENT", statusCode |-> HttpServerError]

(* ---------------------- the scheduler, streaming ----------------------- *)
\* The scheduler invokes onChunk any number of times, then onComplete or
\* onError once, and settles the promise of submitStreamingJob: it resolves
\* after the terminal callback, or rejects after onError.  A job that was
\* never dispatched (nothing was delivered) is rejected without a callback.
StreamResults == { r \in Results : r.response = << >> }

\* the scheduler may still invoke a callback of the job
CallbacksOpen == pc = "awaitStream" /\ cb = "none"

\* the scheduler may resolve the promise of submitStreamingJob
MayResolve == pc = "awaitStream" /\ cb # "none"

\* the scheduler may reject the promise of submitStreamingJob
MayReject ==
    /\ pc = "awaitStream"
    /\ \/ cb = "error"
       \/ cb = "none" /\ emitted = << >>

SchedulerChunk(chunk) ==
    /\ CallbacksOpen
    /\ Len(emitted) < MaxChunks
    /\ LET after == onChunk(res, validatedData[1], promptText, totalText, chunk)
       IN  /\ res' = after.res
           /\ totalText' = after.totalText
    /\ emitted' = Append(emitted, chunk)
    /\ UNCHANGED <<pc, availableModels, body, validatedData, promptText, thrown,
                   calls, cb, outcome>>
    /\ UNCHANGED <<modelsVars, optionVars, payloadVars, streamVars, adapterVars>>

SchedulerComplete(result) ==
    /\ CallbacksOpen
    /\ res' = onComplete(res, validatedData[1], result)
    /\ cb' = "complete"
    /\ outcome' = <<[result |-> result]>>
    /\ UNCHANGED <<pc, availableModels, body, validatedData, promptText, totalText,
                   thrown, calls, emitted>>
    /\ UNCHANGED <<modelsVars, optionVars, payloadVars, streamVars, adapterVars>>

SchedulerError(message) ==
    /\ CallbacksOpen
    /\ res' = onError(res, message)
    /\ cb' = "error"
    /\ outcome' = <<[error |-> message]>>
    /\ UNCHANGED <<pc, availableModels, body, validatedData, promptText, totalText,
                   thrown, calls, emitted>>
    /\ UNCHANGED <<modelsVars, optionVars, payloadVars, streamVars, adapterVars>>

\* the awaited promise resolves: the handler returns
StreamingResolves ==
    /\ MayResolve
    /\ pc' = "done"
    /\ UNCHANGED <<availableModels, body, validatedData, promptText, totalText, res,
                   thrown, calls, emitted, cb, outcome>>
    /\ UNCHANGED <<modelsVars, optionVars, payloadVars, streamVars, adapterVars>>

\* the awaited promise rejects: the catch block runs
StreamingRejects(message) ==
    /\ MayReject
    /\ res' = catchBlock(res, message)
    /\ thrown' = IF jsonThrows(res) THEN <<HeadersSentError>> ELSE thrown
    /\ outcome' = Append(outcome, [rejected |-> message])
    /\ pc' = "done"
    /\ UNCHANGED <<availableModels, body, validatedData, promptText, totalText,
                   calls, emitted, cb>>
    /\ UNCHANGED <<modelsVars, optionVars, payloadVars, streamVars, adapterVars>>

(* -------------------- the scheduler, non-streaming --------------------- *)
SubmitAndWaitResolves(result) ==
    /\ pc = "awaitResult"
    /\ res' = json(res, convertToOpenAICompletionsResponse(
                            result, validatedData[1].model, promptText,
                            validatedData[1].echo))
    /\ outcome' = <<[result |-> result]>>
    /\ pc' = "done"
    /\ UNCHANGED <<availableModels, body, validatedData, promptText, totalText,
                   thrown, calls, emitted, cb>>
    /\ UNCHANGED <<modelsVars, optionVars, payloadVars, streamVars, adapterVars>>

SubmitAndWaitRejects(message) ==
    /\ pc = "awaitResult"
    /\ res' = catchBlock(res, message)
    /\ thrown' = IF jsonThrows(res) THEN <<HeadersSentError>> ELSE thrown
    /\ outcome' = <<[rejected |-> message]>>
    /\ pc' = "done"
    /\ UNCHANGED <<availableModels, body, validatedData, promptText, totalText,
                   calls, emitted, cb>>
    /\ UNCHANGED <<modelsVars, optionVars, payloadVars, streamVars, adapterVars>>

Next ==
    \/ \E b \in Bodies : PostCompletions(b)
    \/ \E chunk \in Chunks : SchedulerChunk(chunk)
    \/ \E result \in StreamResults : SchedulerComplete(result)
    \/ \E message \in ErrorMessages : SchedulerError(message)
    \/ StreamingResolves
    \/ \E message \in ErrorMessages : StreamingRejects(message)
    \/ \E result \in Results : SubmitAndWaitResolves(result)
    \/ \E message \in ErrorMessages : SubmitAndWaitRejects(message)

Spec == Init /\ [][Next]_vars

(* ============================ GET /v1/models =========================== *)
\* the registry holds at most this many workers before a duplicate is added
MaxWorkers == 2

\* the clock reading of new Date() (line 357)
CurrentTime == 9000

\* model names, in the order of localeCompare
ModelNames == <<"m1", "m2">>

Livenesses == {"joining", "ready", "draining", "lost"}

\* inventories a worker advertises: descriptors with a name and a modification
\* time in milliseconds (the declared type makes modified_at a required string)
Inventories ==
    { << >>,
      <<[name |-> "m1", modified_at |-> <<1500>>]>>,
      <<[name |-> "m1", modified_at |-> <<2500>>]>>,
      <<[name |-> "m2", modified_at |-> <<1500>>],
        [name |-> "m1", modified_at |-> <<1500>>]>> }

\* worker.capabilities: absent, without availableModels, or with an inventory
CapabilitiesInputs ==
    { << >>, <<[maxConcurrentTasks |-> 1]>> }
    \cup { <<[maxConcurrentTasks |-> 1, availableModels |-> inv]>> : inv \in Inventories }

WorkerShapes == [status : Livenesses, capabilities : CapabilitiesInputs]

\* fleets of n workers, the i-th with id i
FleetsOf(n) ==
    { [i \in 1..n |-> [id |-> i, status |-> f[i].status,
                       capabilities |-> f[i].capabilities]] :
        f \in [1..n -> WorkerShapes] }

Fleets == UNION { FleetsOf(n) : n \in 0..MaxWorkers }

\* workerRegistry.getAllWorkers(): the snapshot of all workers, whatever their
\* liveness
getAllWorkers(workers) == workers

\* Math.floor(ms / 1000)
secondsOf(ms) == ms \div 1000

\* created of a model descriptor (lines 356-358)
createdOf(model, now) ==
    secondsOf(IF model.modified_at = << >> THEN now ELSE model.modified_at[1])

\* the entry modelsMap.set stores (lines 353-363)
modelEntry(model, now) ==
    [id |-> model.name,
     object |-> "model",
     created |-> createdOf(model, now),
     owned_by |-> "gridllm",
     permission |-> << >>,
     root |-> model.name,
     parent |-> "null"]

\* worker.capabilities.availableModels, << >> when the test of line 350 fails
inventoryOf(worker) ==
    IF worker.capabilities = << >> THEN << >>
    ELSE IF "availableModels" \notin DOMAIN worker.capabilities[1] THEN << >>
    ELSE worker.capabilities[1].availableModels

\* the descriptors of all workers, in the order the two loops visit them
RECURSIVE visited(_)
visited(workers) ==
    IF workers = << >> THEN << >>
    ELSE inventoryOf(Head(workers)) \o visited(Tail(workers))

\* modelsMap.has(name)
has(map, name) == \E i \in 1..Len(map) : map[i].id = name

\* modelsMap after the loops (lines 349-367), in insertion order: the first
\* descriptor of a name is kept
RECURSIVE aggregate(_, _, _)
aggregate(map, models, now) ==
    IF models = << >> THEN map
    ELSE LET m == Head(models)
             next == IF has(map, m.name) THEN map ELSE Append(map, modelEntry(m, now))
         IN  aggregate(next, Tail(models), now)

\* a.localeCompare(b) < 0, = 0, > 0
rank(name) == CHOOSE i \in 1..Len(ModelNames) : ModelNames[i] = name
localeCompare(a, b) == rank(a) - rank(b)

\* Array.prototype.sort with the comparator of line 369 (a stable sort)
RECURSIVE insert(_, _)
insert(sorted, e) ==
    IF sorted = << >> THEN <<e>>
    ELSE IF localeCompare(Head(sorted).id, e.id) <= 0
         THEN <<Head(sorted)>> \o insert(Tail(sorted), e)
         ELSE <<e>> \o sorted

RECURSIVE sortById(_)
sortById(entries) ==
    IF entries = << >> THEN << >>
    ELSE insert(sortById(SubSeq(entries, 1, Len(entries) - 1)), entries[Len(entries)])

\* the handler without the sort
listModelsUnsorted(allWorkers, now) ==
    [object |-> "list", data |-> aggregate(<< >>, visited(allWorkers), now)]

\* the body GET /v1/models answers (lines 345-381)
listModels(allWorkers, now) ==
    [object |-> "list",
     data |-> sortById(aggregate(<< >>, visited(allWorkers), now))]

InitModels ==
    /\ pc = "idle" /\ availableModels = {} /\ body = << >> /\ validatedData = << >>
    /\ promptText = << >> /\ totalText = << >> /\ res = NewResponse
    /\ thrown = << >> /\ calls = << >> /\ emitted = << >> /\ cb = "none"
    /\ outcome = << >>
    /\ IdleOptions /\ IdlePayload /\ IdleStream /\ IdleAdapter
    /\ pcM = "start"
    /\ fleet \in Fleets
    /\ listing = << >>
    /\ prevListing = << >>

\* GET /v1/models
GetModels ==
    /\ pcM \in {"start", "grown"}
    /\ listing' = <<listModels(getAllWorkers(fleet), CurrentTime)>>
    /\ prevListing' = listing
    /\ pcM' = IF pcM = "start" THEN "listed" ELSE "relisted"
    /\ UNCHANGED <<fleet, completionsVars, optionVars, payloadVars, streamVars, adapterVars>>

\* a new worker registers with the inventory of the i-th worker; the registry
\* enumerates it after the workers it already holds
RegisterDuplicate(i, liveness) ==
    /\ pcM = "listed"
    /\ i \in 1..Len(fleet)
    /\ fleet' = Append(fleet, [id |-> Len(fleet) + 1, status |-> liveness,
                               capabilities |-> fleet[i].capabilities])
    /\ pcM' = "grown"
    /\ UNCHANGED <<listing, prevListing, completionsVars, optionVars, payloadVars,
                   streamVars, adapterVars>>

NextModels ==
    \/ GetModels
    \/ \E i \in 1..MaxWorkers, liveness \in Livenesses : RegisterDuplicate(i, liveness)

SpecModels == InitModels /\ [][NextModels]_vars

(* ========================= parameter translation ======================= *)
DefaultTopP == 1
DefaultFrequencyPenalty == 0
DefaultPresencePenalty == 0

\* prompts that pass the schema: a string, an array of strings, an array of
\* numbers, an array of arrays of numbers
ValidPrompts ==
    { [kind |-> "string", str |-> <<"H">>],
      [kind |-> "string", str |-> <<"a", NL, "b">>],
      [kind |-> "strings", items |-> << >>],
      [kind |-> "strings", items |-> << <<"H">> >>],
      [kind |-> "strings", items |-> << <<"H">>, <<"i", "!">> >>],
      [kind |-> "tokens", items |-> <<0>>],
      [kind |-> "tokens", items |-> <<1, 23>>],
      [kind |-> "tokenArrays", items |-> << << >> >>],
      [kind |-> "tokenArrays", items |-> << <<1>>, <<20, 3>> >>] }

\* seed: null or an integer
SeedInputs == { [kind |-> "null"], [kind |-> "number", value |-> 0],
                [kind |-> "number", value |-> 7] }

\* stop: null, a string, or an array of at most four strings
StopInputs ==
    { [kind |-> "null"],
      [kind |-> "string", str |-> <<"s">>],
      [kind |-> "strings", items |-> << >>],
      [kind |-> "strings", items |-> << <<"s">>, <<"t">> >>] }

\* values of validatedData, the defaults applied
ValidatedInputs ==
    [ prompt : ValidPrompts,
      temperature : MinTemperature..MaxTemperature,
      top_p : {0, DefaultTopP},
      max_tokens : {MinMaxTokens, DefaultMaxTokens, DefaultMaxTokens + 1},
      seed : SeedInputs,
      stop : StopInputs,
      frequency_penalty : {-1, DefaultFrequencyPenalty, 1},
      presence_penalty : {DefaultPresencePenalty, 2} ]

\* const ollamaOptions: any = {}
EmptyOptions == << >>

\* if (test) ollamaOptions[key] = value
setIf(options, test, key, value) ==
    IF test THEN (key :> value) @@ options ELSE options

\* Array.isArray(stop) ? stop : [stop]
stopList(stop) == IF stop.kind = "strings" THEN stop.items ELSE <<stop.str>>

\* ollamaOptions with the seed set only when it is truthy
ollamaOptionsSeedTruthy(vd) ==
    LET o1 == setIf(EmptyOptions, vd.temperature # DefaultTemperature,
                    "temperature", vd.temperature)
        o2 == setIf(o1, vd.top_p # DefaultTopP, "top_p", vd.top_p)
        o3 == setIf(o2, vd.max_tokens # DefaultMaxTokens, "num_predict", vd.max_tokens)
        o4 == IF vd.seed.kind # "null" /\ vd.seed.value # 0
              THEN ("seed" :> vd.seed.value) @@ o3 ELSE o3
        o5 == IF vd.stop.kind # "null"
              THEN ("stop" :> stopList(vd.stop)) @@ o4 ELSE o4
        o6 == setIf(o5, vd.frequency_penalty # DefaultFrequencyPenalty,
                    "frequency_penalty", vd.frequency_penalty)
    IN  setIf(o6, vd.presence_penalty # DefaultPresencePenalty,
              "presence_penalty", vd.presence_penalty)

\* ollamaOptions after lines 157-181
ollamaOptions(vd) ==
    LET o1 == setIf(EmptyOptions, vd.temperature # DefaultTemperature,
                    "temperature", vd.temperature)
        o2 == setIf(o1, vd.top_p # DefaultTopP, "top_p", vd.top_p)
        o3 == setIf(o2, vd.max_tokens # DefaultMaxTokens, "num_predict", vd.max_tokens)
        o4 == IF vd.seed.kind # "null"
              THEN ("seed" :> vd.seed.value) @@ o3 ELSE o3
        o5 == IF vd.stop.kind # "null"
              THEN ("stop" :> stopList(vd.stop)) @@ o4 ELSE o4
        o6 == setIf(o5, vd.frequency_penalty # DefaultFrequencyPenalty,
                    "frequency_penalty", vd.frequency_penalty)
    IN  setIf(o6, vd.presence_penalty # DefaultPresencePenalty,
              "presence_penalty", vd.presence_penalty)

InitOptions ==
    /\ pc = "idle" /\ availableModels = {} /\ body = << >> /\ validatedData = << >>
    /\ promptText = << >> /\ totalText = << >> /\ res = NewResponse
    /\ thrown = << >> /\ calls = << >> /\ emitted = << >> /\ cb = "none"
    /\ outcome = << >>
    /\ IdleModels /\ IdlePayload /\ IdleStream /\ IdleAdapter
    /\ candidate \in { <<vd>> : vd \in ValidatedInputs }
    /\ forwarded = << >>

\* lines 154-188: the prompt and the options of the inference request
Translate ==
    /\ candidate # << >>
    /\ forwarded = << >>
    /\ forwarded' = <<[prompt |-> convertPromptToString(candidate[1].prompt),
                       options |-> ollamaOptions(candidate[1])]>>
    /\ UNCHANGED <<candidate, completionsVars, modelsVars, payloadVars, streamVars, adapterVars>>

NextOptions == Translate

SpecOptions == InitOptions /\ [][NextOptions]_vars

(* ================= worker adapter: streaming generators ================ *)
\* a worker stream has at most this many newline-terminated lines
MaxLines == 2

\* Bytes on the wire.  "{" and "}" delimit a JSON record, "a" is one ASCII
\* character of its text, "C3" "A9" are the two bytes of one non-ASCII
\* character (U+00E9), "D" stands for the member "done":true, "M" for the
\* members prompt_eval_count, eval_count and done_reason, "x" is a byte that
\* is not JSON, " " is white space.
LineInputs ==
    { <<"{", "a", "}">>,
      <<"{", "C3", "A9", "}">>,
      <<"{", "D", "M", "}">>,
      <<"x">>,
      <<" ">> }

\* what follows the last newline when the stream closes: nothing, the start
\* of a record, or a whole record
TailInputs == { << >>, <<"{", "a">>, <<"{", "a", "}">> }

RECURSIVE terminated(_)
terminated(lines) ==
    IF lines = << >> THEN << >>
    ELSE Head(lines) \o <<NL>> \o terminated(Tail(lines))

\* the byte streams a worker may send
Wires ==
    { terminated(lines) \o tail :
        lines \in UNION { [1..n -> LineInputs] : n \in 0..MaxLines },
        tail \in TailInputs }

Generators == {"generateStreamResponse", "generateChatStreamResponse"}

\* chunk.toString(): UTF-8 decoding of one chunk on its own; a lead byte
\* without its continuation byte, and a continuation byte without its lead
\* byte, each decode to U+FFFD
RECURSIVE toString(_)
toString(chunk) ==
    IF chunk = << >> THEN << >>
    ELSE IF Head(chunk) = "C3"
         THEN IF Len(chunk) >= 2 /\ chunk[2] = "A9"
              THEN <<"U+00E9">> \o toString(Tail(Tail(chunk)))
              ELSE <<"U+FFFD">> \o toString(Tail(chunk))
    ELSE IF Head(chunk) = "A9" THEN <<"U+FFFD">> \o toString(Tail(chunk))
    ELSE <<Head(chunk)>> \o toString(Tail(chunk))

\* buffer.split("\n")
RECURSIVE split(_)
split(text) ==
    IF \A i \in 1..Len(text) : text[i] # NL THEN <<text>>
    ELSE LET n == CHOOSE i \in 1..Len(text) :
                     text[i] = NL /\ \A j \in 1..(i - 1) : text[j] # NL
         IN  <<SubSeq(text, 1, n - 1)>> \o split(SubSeq(text, n + 1, Len(text)))

\* line.trim()
RECURSIVE trim(_)
trim(line) ==
    IF line = << >> THEN << >>
    ELSE IF Head(line) = " " THEN trim(Tail(line))
    ELSE IF line[Len(line)] = " " THEN trim(SubSeq(line, 1, Len(line) - 1))
    ELSE line

TextCharacters == {"a", "U+00E9", "U+FFFD"}

\* the characters of the record's text: the longest prefix of text characters
RECURSIVE textOf(_)
textOf(members) ==
    IF members = << >> \/ Head(members) \notin TextCharacters THEN << >>
    ELSE <<Head(members)>> \o textOf(Tail(members))

\* JSON.parse(line) succeeds: a record of a text, then "done":true or not,
\* then the terminal members or not
parses(line) ==
    LET t == trim(line)
    IN  /\ Len(t) >= 2
        /\ t[1] = "{"
        /\ t[Len(t)] = "}"
        /\ LET members == SubSeq(t, 2, Len(t) - 1)
               rest == SubSeq(members, Len(textOf(members)) + 1, Len(members))
           IN  rest \in { << >>, <<"D">>, <<"M">>, <<"D", "M">> }

\* the members "done":true and the terminal metadata of a parsed record
flagsOf(members) ==
    LET done == IF \E i \in 1..Len(members) : members[i] = "D"
                THEN [done |-> TRUE] ELSE << >>
        meta == IF \E i \in 1..Len(members) : members[i] = "M"
                THEN [prompt_eval_count |-> 3, eval_count |-> 5, done_reason |-> "stop"]
                ELSE << >>
    IN  done @@ meta

\* JSON.parse(line) of a line that parses: /api/generate records carry the
\* text as response, /api/chat records as message.content
parse(g, line) ==
    LET t == trim(line)
        members == SubSeq(t, 2, Len(t) - 1)
    IN  IF g = "generateStreamResponse"
        THEN [response |-> textOf(members)] @@ flagsOf(members)
        ELSE [message |-> [content |-> textOf(members)]] @@ flagsOf(members)

\* data.done || false
doneOf(data) == IF "done" \in DOMAIN data THEN data.done ELSE FALSE

\* the record a generator yields for a parsed line (lines 241-245, 463-468)
yieldOf(g, data) ==
    IF g = "generateStreamResponse"
    THEN [id |-> "r1", response |-> data.response, done |-> doneOf(data)]
    ELSE data @@ [id |-> "r1", response |-> data.message.content, done |-> doneOf(data)]

\* the inner for loop over the complete lines (lines 237-261, 459-476): the
\* records yielded, the records parsed, and whether the generator returned
RECURSIVE forLines(_, _)
forLines(g, lines) ==
    IF lines = << >> THEN [out |-> << >>, data |-> << >>, returned |-> FALSE]
    ELSE IF trim(Head(lines)) = << >> \/ ~parses(Head(lines))
         THEN forLines(g, Tail(lines))
    ELSE LET data == parse(g, Head(lines))
         IN  IF g = "generateStreamResponse" /\ doneOf(data)
             THEN [out |-> <<yieldOf(g, data)>>, data |-> <<data>>, returned |-> TRUE]
             ELSE LET later == forLines(g, Tail(lines))
                  IN  [out |-> <<yieldOf(g, data)>> \o later.out,
                       data |-> <<data>> \o later.data,
                       returned |-> later.returned]

InitStream ==
    /\ pc = "idle" /\ availableModels = {} /\ body = << >> /\ validatedData = << >>
    /\ promptText = << >> /\ totalText = << >> /\ res = NewResponse
    /\ thrown = << >> /\ calls = << >> /\ emitted = << >> /\ cb = "none"
    /\ outcome = << >>
    /\ IdleModels /\ IdleOptions /\ IdlePayload
    /\ IdleStream /\ IdleAdapter

\* the generator is called and the POST answers with the worker's stream
OpenStream(g, w) ==
    /\ genState = "idle"
    /\ gen' = g
    /\ wireAll' = w
    /\ wire' = w
    /\ genState' = "reading"
    /\ UNCHANGED <<buffer, yielded, parsed, completionsVars, modelsVars, optionVars,
                   payloadVars, adapterVars>>

\* one iteration of for await (const chunk of response.data): the transport
\* hands over the next bytes, any number of them
Deliver ==
    /\ genState = "reading"
    /\ \E k \in 1..Len(wire) :
          LET text == buffer \o toString(SubSeq(wire, 1, k))
              lines == split(text)
              done == forLines(gen, SubSeq(lines, 1, Len(lines) - 1))
          IN  /\ buffer' = lines[Len(lines)]
              /\ yielded' = yielded \o done.out
              /\ parsed' = parsed \o done.data
              /\ genState' = IF done.returned THEN "returned" ELSE "reading"
              /\ wire' = SubSeq(wire, k + 1, Len(wire))
    /\ UNCHANGED <<gen, wireAll, completionsVars, modelsVars, optionVars, payloadVars, adapterVars>>

\* the stream ends: the for await loop is left; generateChatStreamResponse
\* parses what is left in the buffer (lines 479-495), generateStreamResponse
\* does not read it
StreamEnds ==
    /\ genState = "reading"
    /\ wire = << >>
    /\ LET rest == IF gen = "generateChatStreamResponse"
                   THEN forLines(gen, <<buffer>>)
                   ELSE [out |-> << >>, data |-> << >>, returned |-> FALSE]
       IN  /\ yielded' = yielded \o rest.out
           /\ parsed' = parsed \o rest.data
    /\ genState' = "returned"
    /\ UNCHANGED <<gen, wireAll, wire, buffer, completionsVars, modelsVars, optionVars,
                   payloadVars, adapterVars>>

\* the stream emits an error (the connection is reset): the catch block
\* rethrows (lines 263-274, 496-507)
StreamFails ==
    /\ genState = "reading"
    /\ genState' = "threw"
    /\ UNCHANGED <<gen, wireAll, wire, buffer, yielded, parsed, completionsVars,
                   modelsVars, optionVars, payloadVars, adapterVars>>

NextStream ==
    \/ \E g \in Generators, w \in Wires : OpenStream(g, w)
    \/ Deliver
    \/ StreamEnds
    \/ StreamFails

SpecStream == InitStream /\ [][NextStream]_vars

(* =================== worker adapter: request payload =================== *)
\* request.metadata: every passthrough field absent or present, the present
\* values including the falsy ones of its type
MetadataInputs ==
    [ think : Maybe(BOOLEAN),
      suffix : Maybe({ << >>, <<"s">> }),
      images : Maybe({ << >>, <<"i">> }),
      format : Maybe({ <<"j", "s", "o", "n">> }),
      system : Maybe({ << >>, <<"s">> }),
      template : Maybe({ <<"t">> }),
      raw : Maybe(BOOLEAN),
      keep_alive : Maybe({ 0, 5 }),
      context : Maybe({ <<1>> }) ]

RequestInputs ==
    [ id : {"r1"},
      model : {"m1"},
      prompt : { <<"H">> },
      options : Maybe({ [temperature |-> 0] }),
      metadata : Maybe(MetadataInputs) ]

\* request.metadata?.field: << >> when metadata or the field is absent
field(req, name) ==
    IF req.metadata = << >> THEN << >> ELSE req.metadata[1][name]

\* the truthiness of request.metadata?.field: false, "" and 0 are falsy,
\* arrays are truthy
truthy(req, name) ==
    /\ field(req, name) # << >>
    /\ CASE name \in {"think", "raw"} -> field(req, name)[1] = TRUE
         [] name \in {"suffix", "format", "system", "template"}
               -> field(req, name)[1] # << >>
         [] name = "keep_alive" -> field(req, name)[1] # 0
         [] name \in {"images", "context"} -> TRUE

\* if (request.metadata?.name) payload.name = request.metadata.name
copyIf(p, req, name) ==
    IF truthy(req, name) THEN (name :> field(req, name)[1]) @@ p ELSE p

\* the payload of generateResponse (lines 101-137) and of
\* generateStreamResponse (lines 181-217)
payloadOf(req, stream) ==
    LET p0 == [model |-> req.model, prompt |-> req.prompt, stream |-> stream,
               options |-> IF req.options = << >> THEN EmptyOptions
                           ELSE req.options[1]]
        p1 == copyIf(p0, req, "think")
        p2 == copyIf(p1, req, "suffix")
        p3 == copyIf(p2, req, "images")
        p4 == copyIf(p3, req, "format")
        p5 == copyIf(p4, req, "system")
        p6 == copyIf(p5, req, "template")
        p7 == copyIf(p6, req, "raw")
        p8 == copyIf(p7, req, "keep_alive")
    IN  copyIf(p8, req, "context")

InitPayload ==
    /\ pc = "idle" /\ availableModels = {} /\ body = << >> /\ validatedData = << >>
    /\ promptText = << >> /\ totalText = << >> /\ res = NewResponse
    /\ thrown = << >> /\ calls = << >> /\ emitted = << >> /\ cb = "none"
    /\ outcome = << >>
    /\ IdleModels /\ IdleOptions /\ IdleStream /\ IdleAdapter
    /\ request \in { <<req>> : req \in RequestInputs }
    /\ payload = << >>

\* generateResponse up to this.client.post("/api/generate", payload)
GenerateResponsePost ==
    /\ request # << >>
    /\ payload = << >>
    /\ payload' = <<[url |-> "/api/generate", data |-> payloadOf(request[1], FALSE)]>>
    /\ UNCHANGED <<request, completionsVars, modelsVars, optionVars, streamVars, adapterVars>>

\* generateStreamResponse up to this.client.post("/api/generate", payload, ..)
GenerateStreamResponsePost ==
    /\ request # << >>
    /\ payload = << >>
    /\ payload' = <<[url |-> "/api/generate", data |-> payloadOf(request[1], TRUE)]>>
    /\ UNCHANGED <<request, completionsVars, modelsVars, optionVars, streamVars, adapterVars>>

NextPayload ==
    \/ GenerateResponsePost
    \/ GenerateStreamResponsePost

SpecPayload == InitPayload /\ [][NextPayload]_vars

(* ================= worker adapter: connection state ==================== *)
\* calls made on one OllamaService
MaxCalls == 2

\* readings of the clock after the construction
MaxClock == 1

\* response.status === 200 (line 68)
StatusOk == 200

\* the statuses with which the HTTP client resolves a request: it rejects
\* every status outside 2xx
ResolvedStatuses == {StatusOk, 204}

ChatOperations == {"generateChatResponse", "generateChatStreamResponse"}

StreamOperations == {"generateStreamResponse", "generateChatStreamResponse"}

InferenceOperations ==
    {"generateResponse", "generateStreamResponse", "generateEmbedding"}
    \cup ChatOperations

\* the requests an operation is called with: chat requests without metadata,
\* without metadata.messages, with no message and with one; embedding
\* requests without input, with the empty string and with a text
RequestsOf(op) ==
    IF op \in ChatOperations
    THEN { [id |-> "r1", metadata |-> md, input |-> << >>] :
             md \in { << >>, <<[messages |-> << >>]>>,
                      <<[messages |-> << << >> >>]>>,
                      <<[messages |-> << <<"m">> >>]>> } }
    ELSE IF op = "generateEmbedding"
    THEN { [id |-> "r1", metadata |-> << >>, input |-> i] :
             i \in { << >>, << << >> >>, << <<"t">> >> } }
    ELSE { [id |-> "r1", metadata |-> << >>, input |-> << >>] }

\* the guards of lines 348, 415 and 524, never taken
lacksRequiredNever(op, req) == FALSE

\* !request.metadata?.messages (lines 348, 415), !request.input (line 524):
\* an absent property and the empty string are falsy, an array is not
lacksRequired(op, req) ==
    IF op \in ChatOperations
    THEN req.metadata = << >> \/ req.metadata[1].messages = << >>
    ELSE IF op = "generateEmbedding"
    THEN req.input = << >> \/ req.input[1] = << >>
    ELSE FALSE

\* the error the guard throws, as rethrown by the catch block
guardError(op) ==
    IF op = "generateChatResponse"
    THEN [prefix |-> "Chat inference failed",
          cause |-> "Chat request must include messages in metadata"]
    ELSE IF op = "generateChatStreamResponse"
    THEN [prefix |-> "Chat stream inference failed",
          cause |-> "Chat request must include messages in metadata"]
    ELSE [prefix |-> "Embedding failed",
          cause |-> "Input is required for embedding requests"]

urlOf(op) ==
    IF op = "checkHealth" THEN "/api/version"
    ELSE IF op \in ChatOperations THEN "/api/chat"
    ELSE IF op = "generateEmbedding" THEN "/api/embed"
    ELSE "/api/generate"

\* getConnectionStatus() (lines 324-329)
getConnectionStatus == [isConnected |-> isConnected, lastHealthCheck |-> lastHealthCheck]

\* the record of a step of call c
stepOf(c, event) ==
    [id |-> c.id, op |-> c.op, request |-> c.request, event |-> event,
     before |-> getConnectionStatus]

InitAdapter ==
    /\ pc = "idle" /\ availableModels = {} /\ body = << >> /\ validatedData = << >>
    /\ promptText = << >> /\ totalText = << >> /\ res = NewResponse
    /\ thrown = << >> /\ calls = << >> /\ emitted = << >> /\ cb = "none"
    /\ outcome = << >>
    /\ IdleModels /\ IdleOptions /\ IdlePayload /\ IdleStream
    /\ IdleAdapter

OtherThanAdapter ==
    <<completionsVars, modelsVars, optionVars, payloadVars, streamVars>>

\* time passes
Tick ==
    /\ clock < MaxClock
    /\ clock' = clock + 1
    /\ UNCHANGED <<isConnected, lastHealthCheck, nextId, pending, http, last,
                   OtherThanAdapter>>

\* checkHealth() up to its await (line 67)
CheckHealthCalled ==
    /\ nextId <= MaxCalls
    /\ LET c == [id |-> nextId, op |-> "checkHealth", request |-> << >>, phase |-> "http"]
       IN  /\ pending' = pending \cup {c}
           /\ http' = http \cup {[id |-> c.id, url |-> urlOf(c.op)]}
           /\ last' = stepOf(c, "issued")
    /\ nextId' = nextId + 1
    /\ UNCHANGED <<isConnected, lastHealthCheck, clock, OtherThanAdapter>>

\* an inference operation up to its await: the guard throws, or the request
\* is posted (lines 146, 226, 380, 447, 542)
InferenceCalled(op, req) ==
    /\ nextId <= MaxCalls
    /\ LET c == [id |-> nextId, op |-> op, request |-> req, phase |-> "http"]
       IN  IF lacksRequired(op, req)
           THEN /\ last' = stepOf(c, "threw") @@ [error |-> guardError(op)]
                /\ UNCHANGED <<pending, http>>
           ELSE /\ pending' = pending \cup {c}
                /\ http' = http \cup {[id |-> c.id, url |-> urlOf(c.op)]}
                /\ last' = stepOf(c, "issued")
    /\ nextId' = nextId + 1
    /\ UNCHANGED <<isConnected, lastHealthCheck, clock, OtherThanAdapter>>

\* the worker answers a health check with a 2xx status (lines 46-52, 68-77)
HealthResolves ==
    /\ \E c \in pending, st \in ResolvedStatuses :
          /\ c.op = "checkHealth"
          /\ isConnected' = (st = StatusOk)
          /\ lastHealthCheck' = clock
          /\ pending' = pending \ {c}
          /\ last' = stepOf(c, "resolved") @@ [status |-> st]
    /\ UNCHANGED <<clock, nextId, http, OtherThanAdapter>>

\* the worker answers an inference request with a 2xx status: the response
\* interceptor passes it on (lines 46-52); a streamed answer has its body
\* still to come
InferenceResolves ==
    /\ \E c \in pending :
          /\ c.op # "checkHealth"
          /\ c.phase = "http"
          /\ pending' = IF c.op \in StreamOperations
                        THEN (pending \ {c}) \cup {[c EXCEPT !.phase = "body"]}
                        ELSE pending \ {c}
          /\ last' = stepOf(c, "resolved") @@ [status |-> StatusOk]
    /\ UNCHANGED <<isConnected, lastHealthCheck, clock, nextId, http, OtherThanAdapter>>

\* a request fails: no answer, or a status outside 2xx; the response
\* interceptor runs (lines 53-61), then the catch block of the operation
HttpRejects ==
    /\ \E c \in pending :
          /\ c.phase = "http"
          /\ pending' = pending \ {c}
          /\ last' = stepOf(c, "rejected")
    /\ isConnected' = FALSE
    /\ UNCHANGED <<lastHealthCheck, clock, nextId, http, OtherThanAdapter>>

\* the body of a streamed answer ends
BodyEnds ==
    /\ \E c \in pending :
          /\ c.phase = "body"
          /\ pending' = pending \ {c}
          /\ last' = stepOf(c, "ended")
    /\ UNCHANGED <<isConnected, lastHealthCheck, clock, nextId, http, OtherThanAdapter>>

\* the body of a streamed answer fails (the connection is reset): the for
\* await loop throws and the catch block rethrows (lines 263-274, 496-507)
BodyFails ==
    /\ \E c \in pending :
          /\ c.phase = "body"
          /\ pending' = pending \ {c}
          /\ last' = stepOf(c, "bodyFailed")
    /\ UNCHANGED <<isConnected, lastHealthCheck, clock, nextId, http, OtherThanAdapter>>

NextAdapter ==
    \/ Tick
    \/ CheckHealthCalled
    \/ \E op \in InferenceOperations : \E req \in RequestsOf(op) : InferenceCalled(op, req)
    \/ HealthResolves
    \/ InferenceResolves
    \/ HttpRejects
    \/ BodyEnds
    \/ BodyFails

SpecAdapter == InitAdapter /\ [][NextAdapter]_vars

(* ============================== claims ================================ *)
\* the request of this run called the scheduler's submitStreamingJob
Streaming == \E i \in 1..Len(calls) : calls[i].fn = "submitStreamingJob"

\* the request of this run called the scheduler's submitAndWait
NonStreaming == \E i \in 1..Len(calls) : calls[i].fn = "submitAndWait"

\* the body misses model or prompt, or has a parameter outside its range
BodyFailsSchema(b) ==
    \/ b.model = << >>
    \/ b.prompt = << >>
    \/ (b.prompt[1].kind = "string" /\ b.prompt[1].str = << >>)
    \/ (b.max_tokens # << >> /\ b.max_tokens[1] < 1)
    \/ (b.temperature # << >> /\ (b.temperature[1] < 0 \/ b.temperature[1] > 2))

\* the text delta of the i-th chunk the scheduler delivered
DeltaOf(i) == IF "response" \in DOMAIN emitted[i] THEN emitted[i].response ELSE << >>

\* a frame that carries choices (a text frame or the final frame)
IsChoiceFrame(f) == "choices" \in DOMAIN f

\* the finish reason the specification derives from a worker result
DerivedFinishReason(result) ==
    IF result.done_reason \in {"stop", "length"} THEN result.done_reason
    ELSE IF result.done_reason = "undefined" /\ OrZero(result.eval_count) = 0
         THEN "length"
    ELSE "stop"

\* C1: a request that passes validation and names a model that is not among
\* the available models fails with a 404 error, and neither submitAndWait nor
\* submitStreamingJob is called: nothing is answered or enqueued by the handler.
C1_UnknownModelIs404 ==
    (body # << >> /\ ~BodyFailsSchema(body[1])
        /\ body[1].model[1] \notin availableModels)
    => /\ pc = "done"
       /\ thrown # << >> /\ thrown[1].statusCode = 404
       /\ ~Streaming /\ ~NonStreaming
       /\ res = NewResponse

\* C1 witness: a valid request for an unavailable model was handled
C1_Witness ==
    /\ pc = "done" /\ body # << >> /\ ~BodyFailsSchema(body[1])
    /\ body[1].model[1] \notin availableModels
    /\ thrown # << >>

\* C2: a request whose body fails the schema is answered 400 with
\* error.type = invalid_request_error and an error.param field, before the
\* model lookup and before any job is submitted.
C2_InvalidBodyIs400 ==
    (body # << >> /\ BodyFailsSchema(body[1]))
    => /\ pc = "done"
       /\ res.wireStatus = <<400>> /\ res.ended = 1
       /\ Len(res.out) = 1
       /\ "error" \in DOMAIN res.out[1]
       /\ res.out[1].error.type = "invalid_request_error"
       /\ "param" \in DOMAIN res.out[1].error
       /\ calls = << >>
       /\ thrown = << >>

\* C2 witness: a body with an out-of-range parameter was answered
C2_Witness ==
    /\ pc = "done" /\ body # << >>
    /\ body[1].model # << >> /\ body[1].prompt # << >>
    /\ body[1].max_tokens = <<0>>
    /\ res.wireStatus = <<400>>

\* C3 (as claimed): every failure the scheduler reports for an accepted
\* request, by rejecting submitAndWait, by invoking onError or by rejecting
\* submitStreamingJob, reaches the client with HTTP status 500 and the body
\* { error: { message, type: server_error, code: internal_error } }.
C3_FailureIs500 ==
    (outcome # << >> /\ "result" \notin DOMAIN outcome[1])
    => /\ res.wireStatus = <<500>>
       /\ res.out # << >>
       /\ "error" \in DOMAIN res.out[Len(res.out)]
       /\ res.out[Len(res.out)].error.type = "server_error"
       /\ res.out[Len(res.out)].error.code = "internal_error"

C5_EchoOnFirstFrameOnly ==
    (Streaming /\ validatedData[1].echo /\ promptText # << >>)
    => \A i \in 1..Len(emitted) :
          i <= Len(res.out) =>
             res.out[i].choices[1].text =
                 (IF i = 1 THEN promptText \o DeltaOf(i) ELSE DeltaOf(i))

\* C6 (as claimed): the finish_reason of the final streaming frame follows the
\* finish-reason derivation from the completion result.
C6_StreamFinishReasonDerived ==
    (Streaming /\ cb = "complete")
    => res.out[Len(emitted) + 1].choices[1].finish_reason
          = DerivedFinishReason(outcome[1].result)

\* C7 (as claimed): the finish_reason of a non-streaming response is the
\* worker's done_reason when that is stop or length, length when no reason is
\* reported and the completion token count of usage is 0, and stop otherwise.
C7_FinishReasonDerived ==
    (NonStreaming /\ pc = "done" /\ "result" \in DOMAIN outcome[1])
    => /\ res.out[1].choices[1].finish_reason = DerivedFinishReason(outcome[1].result)
       /\ res.out[1].usage.completion_tokens = OrZero(outcome[1].result.eval_count)

\* C8: in a streaming response the final frame carries usage if and only if
\* stream_options.include_usage is true, and no frame written by onChunk
\* carries usage.
C8_UsageOnlyWhenAsked ==
    Streaming
    => /\ \A i \in 1..Len(emitted) :
             i <= Len(res.out) => "usage" \notin DOMAIN res.out[i]
       /\ cb = "complete"
          => (("usage" \in DOMAIN res.out[Len(emitted) + 1])
              <=> (body[1].stream_options # << >>
                   /\ body[1].stream_options[1].include_usage = <<TRUE>>))

\* C8 witness: a completed stream that asked for usage, after a chunk
C8_Witness ==
    /\ Streaming /\ cb = "complete" /\ Len(emitted) > 0
    /\ body[1].stream_options # << >>
    /\ body[1].stream_options[1].include_usage = <<TRUE>>
    /\ "usage" \in DOMAIN res.out[Len(res.out) - 1]

\* C9 (as claimed): a streaming response that ends, by completion or by error,
\* has the [DONE] frame as its last frame.
C9_DoneFrameLast ==
    (Streaming /\ cb # "none")
    => (res.ended = 1 /\ res.out[Len(res.out)] = DoneFrame)

\* C10: a stream that completes shows one text frame per onChunk invocation,
\* in order and each with finish_reason null, then one final frame with empty
\* text and a finish_reason, then the [DONE] frame, and nothing else.
C10_FramesOfACompletedStream ==
    (Streaming /\ cb = "complete")
    => /\ Len(res.out) = Len(emitted) + 2
       /\ \A i \in 1..Len(emitted) :
             /\ IsChoiceFrame(res.out[i])
             /\ res.out[i].choices[1].finish_reason = "null"
             /\ res.out[i].choices[1].text \in {DeltaOf(i), promptText \o DeltaOf(i)}
       /\ IsChoiceFrame(res.out[Len(emitted) + 1])
       /\ res.out[Len(emitted) + 1].choices[1].text = << >>
       /\ res.out[Len(emitted) + 1].choices[1].finish_reason # "null"
       /\ res.out[Len(emitted) + 2] = DoneFrame
       /\ res.ended = 1 /\ res.afterEnd = 0

\* C10 witness: a stream completed after two chunks, one of them empty
C10_Witness ==
    /\ Streaming /\ cb = "complete" /\ pc = "done"
    /\ Len(emitted) = 2
    /\ DeltaOf(1) = << >> /\ DeltaOf(2) # << >>

(* ------------------------- claims on /v1/models ------------------------ *)
\* the names of the models the last answer lists
ListedNames == { listing[1].data[i].id : i \in 1..Len(listing[1].data) }

\* the workers that advertise the model name
Advertisers(name) ==
    { i \in 1..Len(fleet) :
        \E k \in 1..Len(inventoryOf(fleet[i])) : inventoryOf(fleet[i])[k].name = name }

\* the modification times the fleet advertises for the model name
TimesOf(name) ==
    UNION { { inventoryOf(fleet[i])[k].modified_at[1] :
                k \in { k \in 1..Len(inventoryOf(fleet[i])) :
                          inventoryOf(fleet[i])[k].name = name } } :
            i \in Advertisers(name) }

Newest(times) == CHOOSE t \in times : \A u \in times : u <= t

\* C11 (as claimed): GET /v1/models lists a model name if and only if a worker
\* whose liveness is ready has it in its inventory.
C11_ListsModelsOfReadyWorkers ==
    (pcM = "listed")
    => ListedNames
         = { ModelNames[n] : n \in { n \in 1..Len(ModelNames) :
                \E i \in Advertisers(ModelNames[n]) : fleet[i].status = "ready" } }

\* C12 (as claimed): the created value of a listed model is derived from the
\* newest modification timestamp any worker advertises for that name.
C12_CreatedFromNewestTimestamp ==
    (pcM = "listed")
    => \A i \in 1..Len(listing[1].data) :
          listing[1].data[i].created
             = Newest(TimesOf(listing[1].data[i].id)) \div 1000

ExpectedOptionKeys(vd) ==
    { k \in {"temperature", "top_p", "num_predict", "seed", "stop",
             "frequency_penalty", "presence_penalty"} :
        CASE k = "temperature" -> vd.temperature # 1
          [] k = "top_p" -> vd.top_p # 1
          [] k = "num_predict" -> vd.max_tokens # 16
          [] k = "seed" -> vd.seed.kind # "null"
          [] k = "stop" -> vd.stop.kind # "null"
          [] k = "frequency_penalty" -> vd.frequency_penalty # 0
          [] k = "presence_penalty" -> vd.presence_penalty # 0 }

\* C14: the options bag holds exactly temperature iff it is not 1, top_p iff
\* it is not 1, num_predict (= max_tokens) iff max_tokens is not 16, seed iff
\* it is not null, the penalties iff they are not zero, and stop iff it is not
\* null, stop being a sequence of strings whatever form was sent.
C14_OptionsBag ==
    forwarded # << >>
    => LET vd == candidate[1]
           o == forwarded[1].options
       IN  /\ DOMAIN o = ExpectedOptionKeys(vd)
           /\ "temperature" \in DOMAIN o => o.temperature = vd.temperature
           /\ "top_p" \in DOMAIN o => o.top_p = vd.top_p
           /\ "num_predict" \in DOMAIN o => o.num_predict = vd.max_tokens
           /\ "seed" \in DOMAIN o => o.seed = vd.seed.value
           /\ "frequency_penalty" \in DOMAIN o
                 => o.frequency_penalty = vd.frequency_penalty
           /\ "presence_penalty" \in DOMAIN o
                 => o.presence_penalty = vd.presence_penalty
           /\ "stop" \in DOMAIN o
                 => /\ vd.stop.kind = "string" => o.stop = <<vd.stop.str>>
                    /\ vd.stop.kind = "strings" => o.stop = vd.stop.items

\* C14 witness: a zero seed and a single stop string are forwarded, the
\* default max_tokens is not
C14_Witness ==
    /\ forwarded # << >>
    /\ candidate[1].seed = [kind |-> "number", value |-> 0]
    /\ candidate[1].stop.kind = "string"
    /\ candidate[1].max_tokens = 16
    /\ DOMAIN forwarded[1].options = {"seed", "stop"}

\* the text with the given separator between the items, built by position
Joined(items, sep) ==
    LET upTo[i \in 0..Len(items)] ==
            IF i = 0 THEN << >>
            ELSE IF i = 1 THEN items[1]
            ELSE upTo[i - 1] \o sep \o items[i]
    IN  upTo[Len(items)]

\* the decimal text of a number below one hundred
Decimal(n) ==
    LET d == <<"0", "1", "2", "3", "4", "5", "6", "7", "8", "9">>
    IN  IF n < 10 THEN <<d[n + 1]>> ELSE <<d[(n \div 10) + 1], d[(n % 10) + 1]>>

\* the JSON text of an array of numbers
JsonOfNumbers(ns) ==
    <<"[">> \o Joined([i \in 1..Len(ns) |-> Decimal(ns[i])], <<",">>) \o <<"]">>

\* C15: the forwarded prompt is the string itself for a string, the strings
\* joined by a newline for a sequence of strings, the empty string for an
\* empty sequence, and the JSON text for a token array or a sequence of
\* token arrays.
C15_ForwardedPrompt ==
    forwarded # << >>
    => LET p == candidate[1].prompt
           text == forwarded[1].prompt
       IN  /\ p.kind = "string" => text = p.str
           /\ p.kind = "strings" => text = Joined(p.items, <<"\n">>)
           /\ (p.kind # "string" /\ Len(p.items) = 0) => text = << >>
           /\ p.kind = "tokens" => text = JsonOfNumbers(p.items)
           /\ p.kind = "tokenArrays"
                 => text = <<"[">>
                           \o Joined([i \in 1..Len(p.items) |->
                                         JsonOfNumbers(p.items[i])], <<",">>)
                           \o <<"]">>

\* C15 witness: a sequence of two token arrays was forwarded as JSON text
C15_Witness ==
    /\ forwarded # << >>
    /\ candidate[1].prompt.kind = "tokenArrays"
    /\ forwarded[1].prompt = <<"[", "[", "1", "]", ",", "[", "2", "0", ",", "3", "]", "]">>

(* -------------------- claims on the streaming generators --------------- *)
TerminalMetadata == {"prompt_eval_count", "eval_count", "done_reason"}

\* the complete lines of the whole byte stream, decoded in one piece
WireLines ==
    LET lines == split(toString(wireAll))
    IN  SubSeq(lines, 1, Len(lines) - 1)

\* the stream consists of newline-terminated lines only
NewlineTerminated == wireAll = << >> \/ wireAll[Len(wireAll)] = NL

\* the records of all parseable lines of the stream
WireRecords == forLines("generateChatStreamResponse", WireLines).data

\* a record with done=true, if the stream has one, is its last record
DoneRecordLast ==
    \A i \in 1..(Len(WireRecords) - 1) : ~doneOf(WireRecords[i])

\* C16 (as claimed): a generator that ended normally has yielded a record with
\* done=true; a stream that closes before such a record, in the middle of a
\* record or between records, makes the generator throw.
C16_ClosedBeforeDoneIsAnError ==
    genState = "returned"
    => \E i \in 1..Len(yielded) : yielded[i].done

\* C17 (as claimed): for a stream of newline-terminated lines, the records
\* yielded are those of the non-blank parseable lines, one each and in wire
\* order, whatever the splitting of the bytes into transport chunks.
C17_RecordsIndependentOfChunking ==
    (genState = "returned" /\ NewlineTerminated /\ DoneRecordLast)
    => /\ Len(yielded) = Len(WireRecords)
       /\ \A i \in 1..Len(yielded) :
             /\ yielded[i].response
                  = forLines(gen, WireLines).out[i].response
             /\ yielded[i].done = doneOf(WireRecords[i])

\* C18 (as claimed): a yielded chunk with done=true carries the terminal
\* metadata of the worker's record it was made from, and a chunk with
\* done=false carries none.
C18_FinalChunkCarriesMetadata ==
    \A i \in 1..Len(yielded) :
        IF yielded[i].done
        THEN \A k \in TerminalMetadata \cap DOMAIN parsed[i] :
                k \in DOMAIN yielded[i] /\ yielded[i][k] = parsed[i][k]
        ELSE TerminalMetadata \cap DOMAIN yielded[i] = {}

\* C20 (as claimed): no record is yielded after a record with done=true.
C20_NothingAfterDone ==
    \A i \in 1..Len(yielded) : yielded[i].done => i = Len(yielded)

(* ----------------------- claims on the request payload ----------------- *)
PassthroughFields ==
    {"think", "suffix", "images", "format", "system", "template", "raw",
     "keep_alive", "context"}

\* C19 (as claimed): the payload holds a passthrough field if and only if the
\* field is present in the request metadata, and then with the same value,
\* falsy values (keep_alive 0, raw false, think false, an empty suffix or
\* system) included.
C19_PassthroughIffPresent ==
    payload # << >>
    => \A name \in PassthroughFields :
          /\ name \in DOMAIN payload[1].data <=> field(request[1], name) # << >>
          /\ name \in DOMAIN payload[1].data
                => payload[1].data[name] = field(request[1], name)[1]

(* --------------- claims on streaming against non-streaming ------------- *)
\* the texts of the frames written so far that carry choices, concatenated
StreamedText ==
    LET upTo[i \in 0..Len(res.out)] ==
            IF i = 0 THEN << >>
            ELSE IF IsChoiceFrame(res.out[i])
                 THEN upTo[i - 1] \o res.out[i].choices[1].text
                 ELSE upTo[i - 1]
    IN  upTo[Len(res.out)]

\* the aggregate response of the worker output: the deltas of the chunks
\* handed to onChunk, concatenated
AggregateResponse ==
    LET upTo[i \in 0..Len(emitted)] ==
            IF i = 0 THEN << >> ELSE upTo[i - 1] \o DeltaOf(i)
    IN  upTo[Len(emitted)]

\* the text of the non-streaming answer to the same request and worker output
NonStreamingText ==
    convertToOpenAICompletionsResponse(
        [response |-> <<AggregateResponse>>, done_reason |-> "stop",
         eval_count |-> << >>, prompt_eval_count |-> << >>],
        validatedData[1].model, promptText, validatedData[1].echo).choices[1].text

\* C21 (as claimed): when a streaming request has completed, the texts of all
\* its frames, concatenated, equal the text of the non-streaming answer to
\* the same prompt and worker output, with echo and without.
C21_StreamedTextEqualsNonStreaming ==
    (Streaming /\ cb = "complete")
    => StreamedText = NonStreamingText

(* -------------------- claims on the connection state ------------------- *)
\* C22: generateChatResponse and generateChatStreamResponse called without
\* metadata.messages, and generateEmbedding called without input, fail with
\* an error, issue no HTTP request to the worker, and leave isConnected and
\* lastHealthCheck as they were.
C22_MissingFieldFailsWithoutHttp ==
    \A op \in ChatOperations \cup {"generateEmbedding"} :
        (/\ last.event \in {"issued", "threw"}
         /\ last.op = op
         /\ \/ (op \in ChatOperations
                /\ (last.request.metadata = << >>
                    \/ last.request.metadata[1].messages = << >>))
            \/ (op = "generateEmbedding" /\ last.request.input = << >>))
        => /\ last.event = "threw"
           /\ \A h \in http : h.id # last.id
           /\ getConnectionStatus = last.before

\* C22 witness: a chat call without messages threw while the service was
\* connected, after a health check at a later clock reading
C22_Witness ==
    /\ last.event = "threw"
    /\ last.op = "generateChatStreamResponse"
    /\ last.request.metadata = <<[messages |-> << >>]>>
    /\ isConnected
    /\ lastHealthCheck = 1

\* the last step was a health check answered with status 200
HealthSucceeded ==
    last.event = "resolved" /\ last.op = "checkHealth" /\ last.status = 200

\* the last step was a failure of an HTTP call to the worker
HttpCallFailed == last.event \in {"rejected", "bodyFailed"}

\* C23 (as claimed): isConnected becomes true only when a checkHealth
\* succeeds, is false after any failed worker HTTP call until a checkHealth
\* succeeds, is never set to true by a successful inference request, and
\* lastHealthCheck changes only on a successful health probe.
C23_ConnectionFlag ==
    last.event # "none"
    => /\ (isConnected /\ ~last.before.isConnected) => HealthSucceeded
       /\ HttpCallFailed => ~isConnected
       /\ isConnected => (HealthSucceeded \/ last.before.isConnected)
       /\ (last.event = "resolved" /\ last.op # "checkHealth")
             => (isConnected => last.before.isConnected)
       /\ lastHealthCheck # last.before.lastHealthCheck
             => (last.event = "resolved" /\ last.op = "checkHealth")

====
